---- MODULE Spec2Model ----
(***************************************************************************)
(* Model of git-credential-store-pathprefix (src/src/main.rs): the "get"   *)
(* lookup.  lookup_credential locates the store, opens it, reads it line   *)
(* by line, parses each line as a URL and returns the first entry that     *)
(* passes the three gates.                                                 *)
(*                                                                         *)
(* Strings are sequences of one-character strings, so that parsing,        *)
(* prefix tests and case folding are computed and not assumed.             *)
(* Option<T> is a set with at most one element: None is {} and Some(x) is  *)
(* {x}; equality of two Options is then equality of sets.                  *)
(***************************************************************************)
EXTENDS Naturals, Sequences, FiniteSets

VARIABLES
    env,      \* process environment: GIT_CREDENTIALS and the home directory
    gc,       \* the request (argument of lookup_credential)
    pc,       \* position of lookup_credential
    path,     \* Option<PathBuf>: the located store path
    opened,   \* outcome of File::open: "-", "Ok", "NotFound", "Other"
    store,    \* the lines of the opened file
    cursor,   \* number of lines the iterator has yielded as Ok
    gate,     \* where the last loop iteration left the loop body
    result    \* the value lookup_credential returns

vars == <<env, gc, pc, path, opened, store, cursor, gate, result>>

\* Largest number of lines of a store.
MaxLines == 2

None == {}
Some(x) == {x}
Unwrap(o) == CHOOSE x \in o : TRUE

----------------------------------------------------------------------------
\* Strings

Take(s, n) == SubSeq(s, 1, n)
Drop(s, n) == SubSeq(s, n + 1, Len(s))

\* index of the first (last) occurrence of character c in s, 0 if none
IndexOf(s, c) ==
    IF \E i \in 1..Len(s) : s[i] = c
    THEN CHOOSE i \in 1..Len(s) : s[i] = c /\ \A j \in 1..(i - 1) : s[j] # c
    ELSE 0

LastIndexOf(s, c) ==
    IF \E i \in 1..Len(s) : s[i] = c
    THEN CHOOSE i \in 1..Len(s) : s[i] = c /\ \A j \in (i + 1)..Len(s) : s[j] # c
    ELSE 0

\* str::starts_with
StartsWith(s, prefix) ==
    Len(prefix) <= Len(s) /\ Take(s, Len(prefix)) = prefix

\* trim_prefix: s without one leading prefix, s itself when it has none
trim_prefix(s, prefix) ==
    IF StartsWith(s, prefix) THEN Drop(s, Len(prefix)) ELSE s

UpperCs == <<"A", "B", "C", "D", "E", "F", "G", "H", "I", "J", "K", "L", "M",
             "N", "O", "P", "Q", "R", "S", "T", "U", "V", "W", "X", "Y", "Z">>
LowerCs == <<"a", "b", "c", "d", "e", "f", "g", "h", "i", "j", "k", "l", "m",
             "n", "o", "p", "q", "r", "s", "t", "u", "v", "w", "x", "y", "z">>
Digits == {"0", "1", "2", "3", "4", "5", "6", "7", "8", "9"}

IsUpper(c) == \E i \in 1..26 : UpperCs[i] = c
IsLower(c) == \E i \in 1..26 : LowerCs[i] = c
IsAlpha(c) == IsUpper(c) \/ IsLower(c)
ToLowerC(c) == IF IsUpper(c) THEN LowerCs[CHOOSE i \in 1..26 : UpperCs[i] = c] ELSE c
ToLower(s) == [i \in 1..Len(s) |-> ToLowerC(s[i])]

----------------------------------------------------------------------------
\* url::Url::parse, for lines made of ASCII letters, digits and the
\* delimiters ":", "/", "@", "?", "#" (no whitespace, backslash, percent
\* sign, dot segment, bracket or non-ASCII character, which the URL parser
\* would rewrite).

IsDigit(c) == c \in Digits
IsSchemeChar(c) == IsAlpha(c) \/ IsDigit(c) \/ c \in {"+", "-", "."}

\* the schemes the URL standard calls special, "file" apart
SpecialSchemes == { <<"h", "t", "t", "p">>, <<"h", "t", "t", "p", "s">>,
                    <<"w", "s">>, <<"w", "s", "s">>, <<"f", "t", "p">> }
FileScheme == <<"f", "i", "l", "e">>

\* s up to (not including) its first character in cs
CutAt(s, cs) ==
    IF \E i \in 1..Len(s) : s[i] \in cs
    THEN Take(s, (CHOOSE i \in 1..Len(s) :
                     s[i] \in cs /\ \A j \in 1..(i - 1) : s[j] \notin cs) - 1)
    ELSE s

\* number of leading "/" of s
LeadingSlashes(s) ==
    IF \E i \in 1..Len(s) : s[i] # "/"
    THEN (CHOOSE i \in 1..Len(s) : s[i] # "/" /\ \A j \in 1..(i - 1) : s[j] = "/") - 1
    ELSE Len(s)

ParseErr(kind) ==
    [ok |-> FALSE, error |-> kind, scheme |-> <<>>, username |-> <<>>,
     password |-> None, host |-> None, path |-> <<>>]

ParsedUrl(scheme, username, password, host, urlpath) ==
    [ok |-> TRUE, error |-> "", scheme |-> scheme, username |-> username,
     password |-> password, host |-> host, path |-> urlpath]

\* "[user[:password]@]host[:port][/path]", what follows "scheme://"
ParseWithAuthority(scheme, special, rest) ==
    LET slash    == IndexOf(rest, "/")
        auth     == IF slash = 0 THEN rest ELSE Take(rest, slash - 1)
        pathRaw  == IF slash = 0 THEN <<>> ELSE Drop(rest, slash - 1)
        at       == LastIndexOf(auth, "@")
        userinfo == IF at = 0 THEN <<>> ELSE Take(auth, at - 1)
        hostport == Drop(auth, at)
        ucolon   == IndexOf(userinfo, ":")
        username == IF ucolon = 0 THEN userinfo ELSE Take(userinfo, ucolon - 1)
        pw       == IF ucolon = 0 THEN <<>> ELSE Drop(userinfo, ucolon)
        hcolon   == IndexOf(hostport, ":")
        hostRaw  == IF hcolon = 0 THEN hostport ELSE Take(hostport, hcolon - 1)
        portRaw  == IF hcolon = 0 THEN <<>> ELSE Drop(hostport, hcolon)
    IN  IF hostRaw = <<>> /\ (special \/ hcolon # 0 \/ at # 0)
        THEN ParseErr("EmptyHost")
        ELSE IF \E i \in 1..Len(portRaw) : ~IsDigit(portRaw[i])
        THEN ParseErr("InvalidPort")
        ELSE ParsedUrl(scheme, username,
                       IF pw = <<>> THEN None ELSE Some(pw),
                       Some(IF special THEN ToLower(hostRaw) ELSE hostRaw),
                       IF special /\ pathRaw = <<>> THEN <<"/">> ELSE pathRaw)

\* what follows "file:"
ParseFile(rest) ==
    IF StartsWith(rest, <<"/", "/">>)
    THEN LET r     == Drop(rest, 2)
             slash == IndexOf(r, "/")
             auth  == IF slash = 0 THEN r ELSE Take(r, slash - 1)
             p     == IF slash = 0 THEN <<"/">> ELSE Drop(r, slash - 1)
         IN  IF \E i \in 1..Len(auth) : auth[i] \in {"@", ":"}
             THEN ParseErr("InvalidDomainCharacter")
             ELSE ParsedUrl(FileScheme, <<>>, None,
                            IF auth = <<>> THEN None ELSE Some(ToLower(auth)), p)
    ELSE ParsedUrl(FileScheme, <<>>, None, None,
                   IF StartsWith(rest, <<"/">>) THEN rest ELSE <<"/">> \o rest)

\* Url::parse(&line)
UrlParse(line) ==
    LET colon == IndexOf(line, ":")
    IN  IF colon < 2 \/ ~IsAlpha(line[1])
           \/ \E i \in 1..(colon - 1) : ~IsSchemeChar(line[i])
        THEN ParseErr("RelativeUrlWithoutBase")
        ELSE LET scheme == ToLower(Take(line, colon - 1))
                 rest   == CutAt(Drop(line, colon), {"?", "#"})
             IN  IF scheme = FileScheme THEN ParseFile(rest)
                 ELSE IF scheme \in SpecialSchemes
                 THEN ParseWithAuthority(scheme, TRUE, Drop(rest, LeadingSlashes(rest)))
                 ELSE IF StartsWith(rest, <<"/", "/">>)
                 THEN ParseWithAuthority(scheme, FALSE, Drop(rest, 2))
                 ELSE ParsedUrl(scheme, <<>>, None, None, rest)

----------------------------------------------------------------------------
\* GitCredential and the gates of lookup_credential

GitCredential(protocol, host, username, password, urlpath) ==
    [protocol |-> protocol, host |-> host, username |-> username,
     password |-> password, path |-> urlpath]

\* GitCredential::from_url(&url): scheme -> protocol, host, username,
\* password if embedded, path without its leading slash
FromUrl(url) ==
    GitCredential(Some(url.scheme), url.host,
                  IF url.username = <<>> THEN None ELSE Some(url.username),
                  url.password,
                  LET p == trim_prefix(url.path, <<"/">>)
                  IN  IF p = <<>> THEN None ELSE Some(p))

\* mutant: || for &&, an entry must agree on protocol and on host
ProtocolHostMismatchEither(g, url) ==
    g.protocol # Some(url.scheme) \/ g.host # url.host

\* gc.protocol.as_deref() != Some(url.scheme()) && gc.host.as_deref() != url.host_str()
ProtocolHostMismatch(g, url) ==
    g.protocol # Some(url.scheme) /\ g.host # url.host

\* mutant: the entry's username is compared also when it is empty
UsernameMismatchUnfiltered(g, url) ==
    g.username # None /\ Unwrap(g.username) # url.username

\* (Some(expected), Some(actual)) = (gc.username, non-empty url.username())
\*   && expected != actual
UsernameMismatch(g, url) ==
    LET actual == IF url.username # <<>> THEN Some(url.username) ELSE None
    IN  g.username # None /\ actual # None /\ Unwrap(g.username) # Unwrap(actual)

\* mutant: the prefix test the other way round
PathMismatchReversed(g, url) ==
    g.path # None /\ ~StartsWith(trim_prefix(url.path, <<"/">>), Unwrap(g.path))

\* (Some(expected), actual) = (gc.path, trim_prefix(url.path(), "/"))
\*   && !expected.starts_with(actual)
PathMismatch(g, url) ==
    g.path # None /\ ~StartsWith(Unwrap(g.path), trim_prefix(url.path, <<"/">>))

\* the statement at which the loop body is left for a parsed line
LeftAt(g, url) ==
    IF ProtocolHostMismatch(g, url) THEN "protocol_host"
    ELSE IF UsernameMismatch(g, url) THEN "username"
    ELSE IF PathMismatch(g, url) THEN "path"
    ELSE "return"

----------------------------------------------------------------------------
\* locate_git_credentials

GitCredentialsFile == <<".git-credentials">>

\* mutant: no filter on the empty value
locate_unfiltered(e) ==
    IF e.GIT_CREDENTIALS # None THEN Some(<<Unwrap(e.GIT_CREDENTIALS)>>)
    ELSE IF e.home # None THEN Some(Append(Unwrap(e.home), GitCredentialsFile))
    ELSE None

\* env::var_os("GIT_CREDENTIALS").filter(|s| !s.is_empty()), else
\* env::home_dir().map(|home| home.join(".git-credentials"))
locate_git_credentials(e) ==
    LET override == IF e.GIT_CREDENTIALS # None /\ Unwrap(e.GIT_CREDENTIALS) # <<>>
                    THEN e.GIT_CREDENTIALS ELSE None
    IN  IF override # None THEN Some(<<Unwrap(override)>>)
        ELSE IF e.home # None THEN Some(Append(Unwrap(e.home), GitCredentialsFile))
        ELSE None

----------------------------------------------------------------------------
\* Inputs

Ws  == <<"w", "s">>
Ftp == <<"f", "t", "p">>

Envs == [GIT_CREDENTIALS : {None, Some(<<>>), Some(<<"o">>)},
         home : {None, Some(<< <<"h">> >>)}]

Requests == [protocol : {None, Some(Ws), Some(Ftp)},
             host     : {None, Some(<<"a">>), Some(<<"b">>)},
             username : {None, Some(<<"u">>), Some(<<"v">>)},
             password : {None},
             path     : {None, Some(<<"p">>), Some(<<"p", "/", "q">>)}]

Lines == {
    <<"w", "s", ":", "/", "/", "a">>,                                \* ws://a
    <<"w", "s", ":", "/", "/", "b", "/", "p">>,                      \* ws://b/p
    <<"f", "t", "p", ":", "/", "/", "a", "/", "p", "/", "q">>,       \* ftp://a/p/q
    <<"f", "t", "p", ":", "/", "/", "u", "@", "b">>,                 \* ftp://u@b
    <<"w", "s", ":", "/", "/", "v", ":", "k", "@", "a", "/", "p">>,  \* ws://v:k@a/p
    <<"W", "s", ":", "/", "/", "@", "B", "/", "p", "/", "q">>,       \* Ws://@B/p/q
    <<"x", ":", "p">>,                                               \* x:p
    <<"f", "i", "l", "e", ":", "/", "/", "/", "p">>,                 \* file:///p
    <<>>,                                                            \* blank line
    <<"a", "/", "p">>,                                               \* a/p
    <<"w", "s", ":", "/", "/">>                                      \* ws://
}

Stores == UNION { [1..n -> Lines] : n \in 0..MaxLines }

\* the URL of every line, parsed once
UrlOf == [l \in Lines |-> UrlParse(l)]

----------------------------------------------------------------------------
\* Result<Option<GitCredential>, LookupError>

Pending == [tag |-> "Pending", val |-> None, err |-> "", input |-> None, path |-> None]
Ok(v) == [tag |-> "Ok", val |-> v, err |-> "", input |-> None, path |-> None]
Err(kind, input, p) == [tag |-> "Err", val |-> None, err |-> kind, input |-> input, path |-> p]

Init ==
    /\ env \in Envs
    /\ gc \in Requests
    /\ pc = "not_started"
    /\ path = None
    /\ opened = "-"
    /\ store = <<>>
    /\ cursor = 0
    /\ gate = "-"
    /\ result = Pending

\* let path = locate_git_credentials().context(LocateGitCredentialsCtx)?
Locate ==
    /\ pc = "not_started"
    /\ LET located == locate_git_credentials(env)
       IN  IF located = None
           THEN /\ pc' = "failed"
                /\ result' = Err("LocateGitCredentials", None, None)
                /\ path' = path
           ELSE /\ pc' = "located"
                /\ path' = located
                /\ result' = result
    /\ UNCHANGED <<env, gc, opened, store, cursor, gate>>

\* mutant: every failure to open is an error, NotFound too
OpenAbsentIsError ==
    /\ pc = "located"
    /\ \E outcome \in {"Ok", "NotFound", "Other"} :
        /\ opened' = outcome
        /\ IF outcome = "Ok"
           THEN /\ store' \in Stores
                /\ pc' = "scanning"
                /\ result' = result
           ELSE /\ pc' = "failed"
                /\ result' = Err("OpenGitCredentials", None, path)
                /\ store' = store
    /\ UNCHANGED <<env, gc, path, cursor, gate>>

\* File::open(&path): the file system answers with a file, NotFound or
\* another error
Open ==
    /\ pc = "located"
    /\ \E outcome \in {"Ok", "NotFound", "Other"} :
        /\ opened' = outcome
        /\ IF outcome = "Ok"
           THEN /\ store' \in Stores
                /\ pc' = "scanning"
                /\ result' = result
           ELSE IF outcome = "NotFound"
           THEN /\ pc' = "absent"
                /\ result' = Ok(None)
                /\ store' = store
           ELSE /\ pc' = "failed"
                /\ result' = Err("OpenGitCredentials", None, path)
                /\ store' = store
    /\ UNCHANGED <<env, gc, path, cursor, gate>>

\* buf_reader.lines() is exhausted: Ok(None)
Eof ==
    /\ pc = "scanning"
    /\ cursor = Len(store)
    /\ pc' = "exhausted"
    /\ result' = Ok(None)
    /\ UNCHANGED <<env, gc, path, opened, store, cursor, gate>>

\* mutant: a line that cannot be read is skipped
ReadFailSkips ==
    /\ pc = "scanning"
    /\ cursor < Len(store)
    /\ cursor' = cursor + 1
    /\ UNCHANGED <<env, gc, pc, path, opened, store, gate, result>>

\* line.context(ReadLineCtx)?: the read of the next line fails
ReadFail ==
    /\ pc = "scanning"
    /\ cursor < Len(store)
    /\ pc' = "failed"
    /\ result' = Err("ReadLine", None, None)
    /\ UNCHANGED <<env, gc, path, opened, store, cursor, gate>>

\* mutant: a line that is not a URL is skipped
ParseFailSkips ==
    /\ pc = "scanning"
    /\ cursor < Len(store)
    /\ ~UrlOf[store[cursor + 1]].ok
    /\ cursor' = cursor + 1
    /\ UNCHANGED <<env, gc, pc, path, opened, store, gate, result>>

\* Url::parse(&line).context(InvalidUrlCtx { input: line })?
ParseFail ==
    /\ pc = "scanning"
    /\ cursor < Len(store)
    /\ LET line == store[cursor + 1]
       IN  /\ ~UrlOf[line].ok
           /\ result' = Err("InvalidUrl", Some(line), None)
    /\ cursor' = cursor + 1
    /\ pc' = "failed"
    /\ UNCHANGED <<env, gc, path, opened, store, gate>>

\* mutant: return Ok(None) for continue
RejectReturns ==
    /\ pc = "scanning"
    /\ cursor < Len(store)
    /\ LET url == UrlOf[store[cursor + 1]]
       IN  /\ url.ok
           /\ LeftAt(gc, url) # "return"
           /\ gate' = LeftAt(gc, url)
    /\ cursor' = cursor + 1
    /\ pc' = "exhausted"
    /\ result' = Ok(None)
    /\ UNCHANGED <<env, gc, path, opened, store>>

\* one of the three `continue`s
Reject ==
    /\ pc = "scanning"
    /\ cursor < Len(store)
    /\ LET url == UrlOf[store[cursor + 1]]
       IN  /\ url.ok
           /\ LeftAt(gc, url) # "return"
           /\ gate' = LeftAt(gc, url)
    /\ cursor' = cursor + 1
    /\ UNCHANGED <<env, gc, pc, path, opened, store, result>>

\* mutant: the request is returned, filled with the entry's password
AcceptFillsRequest ==
    /\ pc = "scanning"
    /\ cursor < Len(store)
    /\ LET url == UrlOf[store[cursor + 1]]
       IN  /\ url.ok
           /\ LeftAt(gc, url) = "return"
           /\ result' = Ok(Some([gc EXCEPT !.password = url.password]))
    /\ gate' = "return"
    /\ cursor' = cursor + 1
    /\ pc' = "matched"
    /\ UNCHANGED <<env, gc, path, opened, store>>

\* return Ok(Some(GitCredential::from_url(&url)))
Accept ==
    /\ pc = "scanning"
    /\ cursor < Len(store)
    /\ LET url == UrlOf[store[cursor + 1]]
       IN  /\ url.ok
           /\ LeftAt(gc, url) = "return"
           /\ result' = Ok(Some(FromUrl(url)))
    /\ gate' = "return"
    /\ cursor' = cursor + 1
    /\ pc' = "matched"
    /\ UNCHANGED <<env, gc, path, opened, store>>

Next == Locate \/ Open \/ Eof \/ ReadFail \/ ParseFail \/ Reject \/ Accept

Spec == Init /\ [][Next]_vars

\* A lookup whose store is named by GIT_CREDENTIALS.  The call is sequential
\* and runs to its return: every enabled step is eventually taken.
ScanInit == Init /\ env = [GIT_CREDENTIALS |-> Some(<<"o">>), home |-> None]

ScanSpec == ScanInit /\ [][Next]_vars /\ WF_vars(Next)

----------------------------------------------------------------------------
\* Vocabulary of the properties, stated without the operators of the gates

\* the parsed entry of line k of the store
Entry(k) == UrlOf[store[k]]

\* p is a prefix of s
IsPrefixOf(p, s) == Len(p) <= Len(s) /\ \A i \in 1..Len(p) : p[i] = s[i]

WithoutLeadingSlash(s) == IF Len(s) > 0 /\ s[1] = "/" THEN Tail(s) ELSE s

AgreesOnProtocol(g, u) == g.protocol = Some(u.scheme)
AgreesOnHost(g, u) == g.host = u.host

PassesGateA(g, u) == AgreesOnProtocol(g, u) \/ AgreesOnHost(g, u)
PassesGateB(g, u) ==
    g.username = None \/ u.username = <<>> \/ Unwrap(g.username) = u.username
PassesGateC(g, u) ==
    g.path = None \/ IsPrefixOf(WithoutLeadingSlash(u.path), Unwrap(g.path))
IsMatch(g, u) == PassesGateA(g, u) /\ PassesGateB(g, u) /\ PassesGateC(g, u)

\* the call has returned after opening the store, and not on a failed read
ReturnedFromScan ==
    opened = "Ok" /\ pc \in {"matched", "exhausted", "failed"} /\ result.err # "ReadLine"

\* line k is the first line that matches, and every line before it parses
IsFirstMatch(k) ==
    /\ k \in 1..Len(store)
    /\ \A j \in 1..(k - 1) : Entry(j).ok /\ ~IsMatch(gc, Entry(j))
    /\ Entry(k).ok /\ IsMatch(gc, Entry(k))

\* the last loop iteration parsed line `cursor` and ran the gates on it
GatesRan == cursor >= 1 /\ Entry(cursor).ok /\ gate # "-"

----------------------------------------------------------------------------
\* C1: first match wins with early exit.  When line k is the first line that
\* passes the three gates and every line before it parses, the call returns
\* Ok(Some(record of line k)) having read exactly k lines, whatever the lines
\* after k are (the formula ranges over every store with that prefix).
C1_FirstMatchWins ==
    ReturnedFromScan =>
        \A k \in 1..Len(store) :
            IsFirstMatch(k) =>
                /\ pc = "matched"
                /\ cursor = k
                /\ result = Ok(Some(FromUrl(Entry(k))))

\* two different matching lines: the first one is returned, the second unread
C1_Witness ==
    /\ pc = "matched" /\ cursor = 1 /\ Len(store) >= 2
    /\ Entry(2).ok /\ IsMatch(gc, Entry(2))
    /\ FromUrl(Entry(2)) # FromUrl(Entry(1))

\* C2 as stated: a valid line followed by a non-URL line always fails with
\* InvalidUrl carrying the non-URL line, also when the valid line matches.
C2_MalformedAlwaysFatal ==
    (ReturnedFromScan /\ Len(store) >= 2 /\ Entry(1).ok /\ ~Entry(2).ok) =>
        result = Err("InvalidUrl", Some(store[2]), None)

\* C2 amended: a line that is read and is not a URL is never skipped, the call
\* fails with InvalidUrl carrying it; a valid line followed by a non-URL line
\* fails so when the valid line does not match, and returns the record of the
\* valid line, with the non-URL line unread, when it matches.
C2_MalformedFatalWhenReached ==
    /\ (cursor >= 1 /\ ~Entry(cursor).ok) =>
           pc = "failed" /\ result = Err("InvalidUrl", Some(store[cursor]), None)
    /\ (ReturnedFromScan /\ Len(store) >= 2 /\ Entry(1).ok /\ ~Entry(2).ok) =>
           IF IsMatch(gc, Entry(1))
           THEN cursor = 1 /\ result = Ok(Some(FromUrl(Entry(1))))
           ELSE cursor = 2 /\ result = Err("InvalidUrl", Some(store[2]), None)

\* a valid, rejected line followed by a non-URL line has failed the call
C2_Witness ==
    /\ pc = "failed" /\ cursor = 2
    /\ Entry(1).ok /\ ~Entry(2).ok
    /\ result = Err("InvalidUrl", Some(store[2]), None)

\* C3: store absence is not an error.  After the path is located, an open that
\* fails with NotFound returns Ok(None); an open that fails otherwise returns
\* OpenGitCredentials with the located path; no line is read in either case.
C3_AbsenceIsNotAnError ==
    /\ opened = "NotFound" =>
           /\ pc = "absent" /\ result = Ok(None)
           /\ path # None /\ cursor = 0 /\ store = <<>>
    /\ opened = "Other" =>
           /\ pc = "failed" /\ path # None
           /\ result = Err("OpenGitCredentials", None, path)
           /\ result.val = None /\ cursor = 0 /\ store = <<>>

C3_Witness == opened = "NotFound" /\ result = Ok(None) /\ path # None

\* C4: protocol/host OR-gate.  A parsed entry is rejected at the first gate
\* exactly when the request's protocol differs from its scheme and the
\* request's host differs from its host; no entry differing in both is returned.
C4_ProtocolHostOrGate ==
    /\ GatesRan =>
           (gate # "protocol_host" <=>
                (AgreesOnProtocol(gc, Entry(cursor)) \/ AgreesOnHost(gc, Entry(cursor))))
    /\ pc = "matched" =>
           (AgreesOnProtocol(gc, Entry(cursor)) \/ AgreesOnHost(gc, Entry(cursor)))

\* an entry with another protocol than the requested one and the same host passed
C4_Witness ==
    /\ GatesRan /\ gate # "protocol_host"
    /\ gc.protocol # None /\ ~AgreesOnProtocol(gc, Entry(cursor))
    /\ gc.host # None /\ AgreesOnHost(gc, Entry(cursor))

\* the request without field f
WithoutField(g, f) == [g EXCEPT ![f] = None]

\* C5 as stated: absent request fields are unconstrained.  An entry that
\* matches the request still matches the request with any one of protocol,
\* host, username, path removed.
C5_AbsentFieldsUnconstrained ==
    pc = "matched" =>
        \A f \in {"protocol", "host", "username", "path"} :
            LeftAt(WithoutField(gc, f), Entry(cursor)) = "return"

\* C6: the path gate is a one-way prefix test.  An entry that passed the first
\* two gates is accepted exactly when the request has no path or the request's
\* path starts with the entry's path without its leading slash.
C6_PathGate ==
    (GatesRan /\ gate \in {"path", "return"}) =>
        (gate = "return" <=>
            (gc.path = None
             \/ IsPrefixOf(WithoutLeadingSlash(Entry(cursor).path), Unwrap(gc.path))))

\* request path "p" against entry path "p/q": rejected at the path gate
C6_Witness ==
    /\ GatesRan /\ gate = "path"
    /\ gc.path = Some(<<"p">>)
    /\ WithoutLeadingSlash(Entry(cursor).path) = <<"p", "/", "q">>

\* C7: username gate.  An entry that passed the first gate is rejected at the
\* second exactly when the request has a username, the entry has a non-empty
\* one and they differ.
C7_UsernameGate ==
    (GatesRan /\ gate # "protocol_host") =>
        (gate = "username" <=>
            (/\ gc.username # None
             /\ Entry(cursor).username # <<>>
             /\ Unwrap(gc.username) # Entry(cursor).username))

\* a request with a username accepted an entry written with an empty username
C7_Witness ==
    /\ GatesRan /\ gate = "return"
    /\ gc.username # None
    /\ Entry(cursor).username = <<>>
    /\ \E i \in 1..Len(store[cursor]) : store[cursor][i] = "@"

\* C8: store location precedence.  A set, non-empty GIT_CREDENTIALS is the
\* path; otherwise (unset or empty) the path is <home>/.git-credentials when
\* there is a home directory; otherwise the call fails with
\* LocateGitCredentials without attempting to open a file.
C8_LocatePrecedence ==
    pc # "not_started" =>
        IF env.GIT_CREDENTIALS \notin {None, Some(<<>>)}
        THEN path = Some(<<Unwrap(env.GIT_CREDENTIALS)>>)
        ELSE IF env.home # None
        THEN path = Some(Unwrap(env.home) \o << <<".git-credentials">> >>)
        ELSE /\ path = None /\ pc = "failed" /\ opened = "-"
             /\ result = Err("LocateGitCredentials", None, None)

\* GIT_CREDENTIALS set but empty: the home directory's file is used
C8_Witness ==
    /\ env.GIT_CREDENTIALS = Some(<<>>) /\ env.home # None
    /\ pc = "located"
    /\ path = Some(Unwrap(env.home) \o << <<".git-credentials">> >>)

\* a terminal state is not left and its result not replaced
StaysTerminal ==
    pc \in {"matched", "exhausted", "failed"} => (pc' = pc /\ result' = result)

\* the cursor stays or moves one line forward, and only while scanning
CursorForward ==
    cursor' = cursor \/ (pc = "scanning" /\ cursor' = cursor + 1)

\* C9: scan state machine.  Once the store is open the call reaches matched,
\* exhausted or failed and stays there; the cursor moves forward one line at a
\* time; exhausted is reached only when every line was read, parsed and
\* rejected; failed carries no record.
C9_ScanStateMachine ==
    /\ (pc = "scanning") ~> (pc \in {"matched", "exhausted", "failed"})
    /\ [][StaysTerminal]_vars
    /\ [][CursorForward]_vars
    /\ [](pc = "exhausted" =>
            /\ opened = "Ok" /\ result = Ok(None) /\ cursor = Len(store)
            /\ \A k \in 1..Len(store) : Entry(k).ok /\ ~IsMatch(gc, Entry(k)))
    /\ [](pc = "failed" => result.tag = "Err" /\ result.val = None)

\* a store of at least two lines was read to its end
C9_Witness == pc = "exhausted" /\ Len(store) >= 2 /\ cursor = Len(store)

\* C10: a returned record is built from the matched entry, not from the
\* request, and agrees with the request on protocol or on host, an absent
\* request host agreeing only with a host-less entry; a request without
\* protocol and host is only answered by a host-less entry.
C10_ResultFromEntry ==
    pc = "matched" =>
        LET r == Unwrap(result.val)
            u == Entry(cursor)
        IN  /\ result.tag = "Ok" /\ result.val # None
            /\ r.protocol = Some(u.scheme)
            /\ r.host = u.host
            /\ r.username = (IF u.username = <<>> THEN None ELSE Some(u.username))
            /\ r.password = u.password
            /\ (gc.protocol = r.protocol \/ gc.host = r.host)
            /\ (gc.protocol = None /\ gc.host = None) => (u.host = None /\ r.host = None)

\* a request without protocol and host answered by a host-less entry
C10_Witness ==
    /\ pc = "matched"
    /\ gc.protocol = None /\ gc.host = None
    /\ Entry(cursor).host = None

====
